---- MODULE Spec2Model ----
(***************************************************************************)
(* Model of the justwatch-search web demo: the Terminal Controller         *)
(* (src/demo.js) and the two Runtime Bridge workers, the one with a run    *)
(* queue and interactive input (src/unnamed/part_000) and the one the      *)
(* Controller instantiates (src/pyodide-worker.js).                        *)
(*                                                                         *)
(* One step of the model is one JavaScript task: a message or key handler  *)
(* up to its first suspending await, or the resumption of an awaited       *)
(* runtime call together with the microtask continuations it triggers.     *)
(***************************************************************************)
EXTENDS Integers, Sequences, FiniteSets, TLC

\* ---------------------------------------------------------------- bounds
MaxRuns == 3      \* run messages the peer of the queueing Bridge sends
MaxOut == 1       \* print calls of the script per run
MaxIn == 1        \* input() calls of the script per run
MaxCmds == 2      \* command lines the user submits that match a command
MaxNav == 3       \* presses of Up, and of Down after them, that nav counts
MaxLen == 3       \* characters of the raw argument strings that are drawn

\* ------------------------------------------------------------- constants
ORIGINAL == 0     \* the runtime's own print/input/stdout/stderr
UNDEFINED == 0 - 1 \* a Python global that has not been assigned
NULL == 0         \* activeStdinHandler = null, no module registered

TokA == <<"a">>
ArgLists == {<<TokA>>}         \* token lists the peer's run messages carry
ExitCodes == {UNDEFINED, 0, 2} \* SystemExit.code (UNDEFINED: code is None)

VARIABLES
  \* Runtime Bridge (both worker files declare the same globals)
  pyodide,            \* pyodide !== null
  initPc,             \* position of initializePyodide()
  loadPc,             \* position of loadScript()
  moduleLoaded,       \* sys.modules['just_watch_search'] is defined
  jsModule,           \* run whose output_handler object is registered, or NULL
  py,                 \* builtins.print, builtins.input, sys.stdout, sys.stderr
  orig,               \* the Python globals _original_print .. _original_stderr
  runs,               \* the invocations of run(), in the order they started
  activeStdinHandler, \* run whose thisRunHandler is installed, or NULL
  runningCommand,
  commandQueue,
  \* channels
  toBridge,           \* messages posted to the worker, not yet delivered
  toCtl,              \* messages posted by the worker, not yet delivered
  \* observation
  lastPosted,         \* the messages the latest step has posted, in order
  received,           \* the run messages delivered to the worker, in order
  lastResponse,       \* the stdin_response the latest step has delivered:
                      \* the run it was sent for, the run it has resumed
  answered,           \* the run whose stdin_request was answered last
  lastOutcome,        \* how the entry point ended, when the latest step is
                      \* the end of a run's entry-point wrapper
  \* Terminal Controller
  worker,             \* worker !== null
  workerReady,
  fetchPc,            \* position of loadPythonScript()
  status,             \* the state shown by updateStatus
  inputDisabled,      \* commandInput.disabled
  inputValue,         \* commandInput.value
  commandHistory,
  historyIndex,
  ctlPc,              \* "awaitAction": runTerminalCommand awaits cmd.action
  appended,           \* the lines the latest handler has appended to
                      \* #terminalOutput with appendOutput
  outstanding,        \* run messages posted minus completes received
  nav                 \* the arrow keys pressed since the input line was last
                      \* empty with a fresh cursor, while they are ups Up
                      \* presses followed by downs Down presses

bridgeVars == <<pyodide, initPc, loadPc, moduleLoaded, jsModule, py, orig,
                runs, activeStdinHandler, runningCommand, commandQueue>>
obsVars == <<lastPosted, received, lastResponse, answered, lastOutcome>>
ctlVars == <<worker, workerReady, fetchPc, status, inputDisabled, inputValue,
             commandHistory, historyIndex, ctlPc, appended, outstanding,
             nav>>
vars == <<bridgeVars, toBridge, toCtl, obsVars, ctlVars>>

\* --------------------------------------------------------------- helpers
Last(s) == s[Len(s)]

RECURSIVE IsPrefix(_, _)
IsPrefix(s, t) ==
  IF s = <<>> THEN TRUE
  ELSE IF t = <<>> THEN FALSE
  ELSE Head(s) = Head(t) /\ IsPrefix(Tail(s), Tail(t))

Ev(type, r) == [type |-> type, run |-> r, success |-> TRUE, code |-> 0]
Complete(r, ok, c) == [type |-> "complete", run |-> r, success |-> ok, code |-> c]

AllOf(v) == [print |-> v, input |-> v, stdout |-> v, stderr |-> v]

\* a message to the worker: e.data = {type, code, args, response}; hasArgs
\* is FALSE when the args field is missing, to is the run whose
\* stdin_request the sender answers
Msg(type, args, hasArgs, to) ==
  [type |-> type, args |-> args, hasArgs |-> hasArgs, to |-> to]

\* one invocation of run(args): args and hasArgs are its parameter, pc its
\* position, resolve tells whether its currentStdinResolve is set, outs and
\* ins count the script's print and input calls (locals of the script, gone
\* when it has ended), completed tells whether it has posted its complete
NewRun(a, pc) ==
  [args |-> a.args, hasArgs |-> a.hasArgs, pc |-> pc, outs |-> 0, ins |-> 0,
   resolve |-> FALSE, completed |-> FALSE]

\* pcs of a run() that has not yet posted its complete
InProgress(r) == runs[r].pc \in {"patch", "main", "input", "catch"}
Active == {r \in 1..Len(runs) : InProgress(r)}

NoResponse == [to |-> NULL, resolved |-> NULL]

NoOutcome == [kind |-> "none", code |-> 0]

NavOff == [ups |-> 0, downs |-> 0]

\* the part of the Bridge that one call chain of processCommandQueue/run
\* reads and writes
Core ==
  [runningCommand |-> runningCommand, commandQueue |-> commandQueue,
   runs |-> runs, jsModule |-> jsModule,
   activeStdinHandler |-> activeStdinHandler, evs |-> <<>>,
   resp |-> NoResponse, outcome |-> NoOutcome]

\* ------------------------------------------------- queueing Bridge: run()
\* run(), from its call to its first suspending await (part_000:65-98)
runSync(S, args) ==
  LET r == Len(S.runs) + 1 IN
  IF pyodide
  THEN [S EXCEPT !.runs = Append(@, NewRun(args, "patch")),
                 !.jsModule = r,
                 !.activeStdinHandler = r]
  ELSE \* registerJsModule throws on null; the catch block's restore call
       \* throws as well and is swallowed; complete is posted at once
       [S EXCEPT !.runs = Append(@, [NewRun(args, "returned")
                                       EXCEPT !.completed = TRUE]),
                 !.activeStdinHandler = NULL,
                 !.evs = Append(@, Complete(r, FALSE, 0))]

MayStart_IgnoresRunning(S) == S.commandQueue # <<>>

\* the guard of processCommandQueue (part_000:202)
MayStart(S) == ~S.runningCommand /\ S.commandQueue # <<>>

shift_Pop(q) == [item |-> q[Len(q)], rest |-> SubSeq(q, 1, Len(q) - 1)]

\* commandQueue.shift() (part_000:207)
shift(q) == [item |-> Head(q), rest |-> Tail(q)]

RECURSIVE processCommandQueue(_), finally(_)
finally_NoDrain(S) ==
  LET r == CHOOSE i \in 1..Len(S.runs) : S.runs[i].pc = "returned"
  IN [S EXCEPT !.runningCommand = FALSE, !.runs[r].pc = "done",
               !.runs[r].outs = 0, !.runs[r].ins = 0]

\* part_000:201-210, up to the await of run()
processCommandQueue(S) ==
  IF ~MayStart(S) THEN S
  ELSE LET sh == shift(S.commandQueue)
           S1 == [S EXCEPT !.runningCommand = TRUE, !.commandQueue = sh.rest]
           S2 == runSync(S1, sh.item)
       IN IF Last(S2.runs).pc = "returned" THEN finally(S2) ELSE S2

\* part_000:211-216, the continuation after run() has returned
finally(S) ==
  LET r == CHOOSE i \in 1..Len(S.runs) : S.runs[i].pc = "returned"
      S1 == [S EXCEPT !.runningCommand = FALSE, !.runs[r].pc = "done",
                      !.runs[r].outs = 0, !.runs[r].ins = 0]
  IN IF S1.commandQueue # <<>> THEN processCommandQueue(S1) ELSE S1

\* self.postMessage for each message of evs; a message is queued for the
\* Controller's worker.onmessage when the Controller has created the worker
Post(evs) ==
  /\ lastPosted' = evs
  /\ toCtl' = (IF worker THEN toCtl \o evs ELSE toCtl)
  /\ lastResponse' = NoResponse
  /\ lastOutcome' = NoOutcome
  /\ UNCHANGED answered

\* assign the Bridge variables a call chain has written and post its events
Commit(S) ==
  /\ runningCommand' = S.runningCommand
  /\ commandQueue' = S.commandQueue
  /\ runs' = S.runs
  /\ jsModule' = S.jsModule
  /\ activeStdinHandler' = S.activeStdinHandler
  /\ lastPosted' = S.evs
  /\ toCtl' = (IF worker THEN toCtl \o S.evs ELSE toCtl)
  /\ lastResponse' = S.resp
  /\ lastOutcome' = S.outcome
  /\ answered' = (IF S.resp.resolved # NULL THEN S.resp.resolved ELSE answered)

\* the setup script of run() (part_000:98-143)
PatchPrimitives(r) ==
  /\ orig' = py
  /\ py' = AllOf(r)

\* the restore statements of the wrapper (part_000:167-170)
RestorePrimitives == py' = orig

\* the restore script of the catch block (part_000:182-189)
RestoreInCatch ==
  IF orig.print = UNDEFINED THEN py' = py ELSE py' = orig

\* the JS catch block up to its await (part_000:179-182)
EnterCatch(S, r) ==
  [S EXCEPT !.runs[r].pc = "catch", !.runs[r].resolve = FALSE,
            !.activeStdinHandler = NULL]

\* resumption of the first await of run(): the setup script has run
QPatchDone(r) ==
  /\ r \in 1..Len(runs) /\ runs[r].pc = "patch"
  /\ IF jsModule = NULL
     THEN \* import output_handler fails before anything is patched
          /\ Commit(EnterCatch(Core, r))
          /\ UNCHANGED <<py, orig>>
     ELSE /\ PatchPrimitives(r)
          /\ IF ~runs[r].hasArgs
             THEN \* sys.argv = [...] + undefined raises NameError
                  Commit(EnterCatch(Core, r))
             ELSE Commit([Core EXCEPT !.runs[r].pc = "main"])
  /\ UNCHANGED <<pyodide, initPc, loadPc, moduleLoaded, toBridge,
                 received, ctlVars>>

\* the script calls print(): custom_print -> send_output (part_000:77-79)
QScriptOutput(r) ==
  /\ r \in 1..Len(runs) /\ runs[r].pc = "main"
  /\ moduleLoaded
  /\ runs[r].outs < MaxOut
  /\ py.print = r
  /\ Commit([Core EXCEPT !.runs[r].outs = @ + 1,
                         !.evs = <<Ev("output", r)>>])
  /\ UNCHANGED <<pyodide, initPc, loadPc, moduleLoaded, py, orig, toBridge,
                 received, ctlVars>>

\* the script calls input(): async_input -> request_input_async
\* (part_000:80-85, 128-136); the prompt, when given, is printed first
QScriptInput(r, prompt) ==
  /\ r \in 1..Len(runs) /\ runs[r].pc = "main"
  /\ moduleLoaded
  /\ runs[r].ins < MaxIn
  /\ py.input = r
  /\ Commit([Core EXCEPT
        !.runs[r].ins = @ + 1,
        !.runs[r].pc = "input",
        !.runs[r].resolve = TRUE,
        !.evs = (IF prompt THEN <<Ev("output", r)>> ELSE <<>>)
                \o <<Ev("stdin_request", r)>>])
  /\ UNCHANGED <<pyodide, initPc, loadPc, moduleLoaded, py, orig, toBridge,
                 received, ctlVars>>

Outcomes ==
  [kind : {"return", "eof", "interrupt", "exception"}, code : {0}]
  \cup [kind : {"exit"}, code : ExitCodes]

ExitCode_FaultIsOne(o) == IF o.kind = "return" THEN 0 ELSE 1

\* exit_code of the entry-point wrapper (part_000:151-165)
ExitCode(o) ==
  CASE o.kind = "return" -> 0
    [] o.kind = "eof" -> 1
    [] o.kind = "interrupt" -> 130
    [] o.kind = "exit" -> (IF o.code # UNDEFINED THEN o.code ELSE 0)
    [] o.kind = "exception" -> 1

\* what the wrapper prints for an outcome (part_000:157, 163-164)
WrapperOutput(r, o) ==
  CASE o.kind = "interrupt" -> <<Ev("output", r)>>
    [] o.kind = "exception" -> <<Ev("output", r), Ev("output", r)>>
    [] OTHER -> <<>>

EndEvents_CompleteFirst(r, o) ==
  <<Complete(r, TRUE, ExitCode(o))>> \o WrapperOutput(r, o)

EndEvents_CompleteTwice(r, o) ==
  WrapperOutput(r, o)
  \o <<Complete(r, TRUE, ExitCode(o)), Complete(r, FALSE, 0)>>

\* the messages of a run whose entry point has ended: what the wrapper
\* prints, then complete (part_000:151-178)
EndEvents(r, o) ==
  WrapperOutput(r, o) \o <<Complete(r, TRUE, ExitCode(o))>>

\* the entry point returns or raises something the wrapper catches; the
\* wrapper restores, run() cleans up and posts complete (part_000:151-178),
\* and processCommandQueue's finally runs (part_000:211-216)
QScriptEnd(r, o) ==
  /\ r \in 1..Len(runs) /\ runs[r].pc = "main"
  /\ moduleLoaded
  /\ RestorePrimitives
  /\ Commit(finally([Core EXCEPT
        !.runs[r].pc = "returned",
        !.runs[r].completed = TRUE,
        !.activeStdinHandler = NULL,
        !.jsModule = NULL,
        !.outcome = o,
        !.evs = EndEvents(r, o)]))
  /\ UNCHANGED <<pyodide, initPc, loadPc, moduleLoaded, orig, toBridge,
                 received, ctlVars>>

\* the execution call rejects: import just_watch_search fails, or the entry
\* point raises a BaseException that no except clause of the wrapper names
QExecFault(r) ==
  /\ r \in 1..Len(runs) /\ runs[r].pc = "main"
  /\ Commit(EnterCatch(Core, r))
  /\ UNCHANGED <<pyodide, initPc, loadPc, moduleLoaded, py, orig, toBridge,
                 received, ctlVars>>

\* resumption of the await in the catch block (part_000:182-193) and the
\* finally of processCommandQueue
QCatchDone(r) ==
  /\ r \in 1..Len(runs) /\ runs[r].pc = "catch"
  /\ RestoreInCatch
  /\ Commit(finally([Core EXCEPT
        !.runs[r].pc = "returned",
        !.runs[r].completed = TRUE,
        !.jsModule = NULL,
        !.evs = <<Complete(r, FALSE, 0)>>]))
  /\ UNCHANGED <<pyodide, initPc, loadPc, moduleLoaded, orig, toBridge,
                 received, ctlVars>>

\* ------------------------------------- queueing Bridge: init, loadScript
\* resumption of an await of initializePyodide() (part_000:8-16); a step
\* that fails rejects the handler's promise and nothing more is posted
InitStep(ok) ==
  /\ initPc \in {"loadPyodide", "loadPackage", "install"}
  /\ IF ~ok
     THEN /\ initPc' = "failed"
          /\ Post(<<>>)
          /\ UNCHANGED pyodide
     ELSE CASE initPc = "loadPyodide" ->
                 /\ pyodide' = TRUE
                 /\ initPc' = "loadPackage"
                 /\ Post(<<Ev("status:loading", 0)>>)
            [] initPc = "loadPackage" ->
                 /\ initPc' = "install"
                 /\ Post(<<>>)
                 /\ UNCHANGED pyodide
            [] initPc = "install" ->
                 /\ initPc' = "done"
                 /\ Post(<<Ev("status:ready", 0), Ev("initialized", 0)>>)
                 /\ UNCHANGED pyodide
  /\ UNCHANGED <<loadPc, moduleLoaded, jsModule, py, orig, runs,
                 activeStdinHandler, runningCommand, commandQueue, toBridge,
                 received, ctlVars>>

\* resumption of the await of loadScript() (part_000:21-62): the script is
\* defined as module just_watch_search, or defining it raises
LoadScriptDone(ok) ==
  /\ loadPc = "running"
  /\ loadPc' = (IF ok THEN "loaded" ELSE "failed")
  /\ moduleLoaded' = (moduleLoaded \/ ok)
  /\ Post(<<IF ok THEN Ev("scriptLoaded", 0) ELSE Ev("error", 0)>>)
  /\ UNCHANGED <<pyodide, initPc, jsModule, py, orig, runs,
                 activeStdinHandler, runningCommand, commandQueue, toBridge,
                 received, ctlVars>>

\* thisRunHandler of run h (part_000:88-94)
thisRunHandler(S, h) ==
  IF S.runs[h].resolve
  THEN [S EXCEPT !.runs[h].resolve = FALSE, !.runs[h].pc = "main",
                 !.resp.resolved = h]
  ELSE S

\* initializePyodide() up to its first await (part_000:6-8)
initializePyodide ==
  /\ initPc' = "loadPyodide"
  /\ Post(<<Ev("status:loading", 0)>>)
  /\ UNCHANGED <<pyodide, loadPc, moduleLoaded, jsModule, py, orig, runs,
                 activeStdinHandler, runningCommand, commandQueue, received>>

\* loadScript() up to its await (part_000:19-21)
loadScript ==
  /\ IF pyodide
     THEN /\ loadPc' = "running"
          /\ Post(<<>>)
     ELSE \* pyodide.runPythonAsync throws inside the try
          /\ loadPc' = "failed"
          /\ Post(<<Ev("error", 0)>>)
  /\ UNCHANGED <<pyodide, initPc, moduleLoaded, jsModule, py, orig, runs,
                 activeStdinHandler, runningCommand, commandQueue, received>>

\* the message listener (part_000:219-234) for the message m
QListener(m) ==
  CASE m.type = "init" -> initializePyodide
    [] m.type = "loadScript" -> loadScript
    [] m.type = "run" ->
         /\ Commit(processCommandQueue(
                [Core EXCEPT !.commandQueue = Append(@, m)]))
         /\ received' = Append(received, m)
         /\ UNCHANGED <<pyodide, initPc, loadPc, moduleLoaded, py, orig>>
    [] m.type = "stdin_response" ->
         /\ IF activeStdinHandler # NULL
            THEN Commit(thisRunHandler(
                   [Core EXCEPT !.resp = [to |-> m.to, resolved |-> NULL]],
                   activeStdinHandler))
            ELSE Commit([Core EXCEPT !.resp = [to |-> m.to, resolved |-> NULL]])
         /\ UNCHANGED <<pyodide, initPc, loadPc, moduleLoaded, py, orig,
                        received>>

\* ------------------------------------------ the peer of the queueing Bridge
Waiting == {r \in 1..Len(runs) : runs[r].pc = "input"}

EnvInit ==
  /\ initPc = "idle"
  /\ QListener(Msg("init", <<>>, FALSE, 0))
  /\ UNCHANGED <<toBridge, ctlVars>>

\* loadScript follows initialized, as in the Controller (demo.js:45-48)
EnvLoadScript ==
  /\ initPc = "done"
  /\ loadPc = "idle"
  /\ QListener(Msg("loadScript", <<>>, FALSE, 0))
  /\ UNCHANGED <<toBridge, ctlVars>>

EnvRun(args, hasArgs) ==
  /\ Len(received) < MaxRuns
  /\ QListener(Msg("run", args, hasArgs, 0))
  /\ UNCHANGED <<toBridge, ctlVars>>

\* the answer to the open stdin_request of run r
EnvAnswer(r) ==
  /\ r \in Waiting
  /\ QListener(Msg("stdin_response", <<>>, FALSE, r))
  /\ UNCHANGED <<toBridge, ctlVars>>

\* a second answer to a stdin_request that has been answered already
EnvStaleAnswer(r) ==
  /\ r = answered
  /\ r \notin Waiting
  /\ QListener(Msg("stdin_response", <<>>, FALSE, r))
  /\ UNCHANGED <<toBridge, ctlVars>>

RunIds == 1..(IF MaxRuns > MaxCmds THEN MaxRuns ELSE MaxCmds)

QBridgeStep ==
  \/ \E ok \in BOOLEAN : InitStep(ok)
  \/ \E ok \in BOOLEAN : LoadScriptDone(ok)
  \/ \E r \in RunIds : QPatchDone(r)
  \/ \E r \in RunIds : QScriptOutput(r)
  \/ \E r \in RunIds, prompt \in BOOLEAN : QScriptInput(r, prompt)
  \/ \E r \in RunIds, o \in Outcomes : QScriptEnd(r, o)
  \/ \E r \in RunIds : QExecFault(r)
  \/ \E r \in RunIds : QCatchDone(r)

InitBridge ==
  /\ pyodide = FALSE
  /\ initPc = "idle"
  /\ loadPc = "idle"
  /\ moduleLoaded = FALSE
  /\ jsModule = NULL
  /\ py = AllOf(ORIGINAL)
  /\ orig = AllOf(UNDEFINED)
  /\ runs = <<>>
  /\ activeStdinHandler = NULL
  /\ runningCommand = FALSE
  /\ commandQueue = <<>>
  /\ toBridge = <<>>
  /\ toCtl = <<>>
  /\ lastPosted = <<>>
  /\ received = <<>>
  /\ lastResponse = NoResponse
  /\ answered = NULL
  /\ lastOutcome = NoOutcome

InitCtl ==
  /\ worker = FALSE
  /\ workerReady = FALSE
  /\ fetchPc = "idle"
  /\ status = ""
  /\ inputDisabled = FALSE
  /\ inputValue = <<>>
  /\ commandHistory = <<>>
  /\ historyIndex = 0 - 1
  /\ ctlPc = "idle"
  /\ appended = <<>>
  /\ outstanding = 0
  /\ nav = NavOff

InitQ == InitBridge /\ InitCtl

NextQ ==
  \/ EnvInit
  \/ EnvLoadScript
  \/ \E a \in ArgLists, hasArgs \in BOOLEAN :
       EnvRun(IF hasArgs THEN a ELSE <<>>, hasArgs)
  \/ \E r \in RunIds : EnvAnswer(r)
  \/ \E r \in RunIds : EnvStaleAnswer(r)
  \/ QBridgeStep

\* the queueing Bridge driven by an arbitrary peer
SpecQ == InitQ /\ [][NextQ]_vars

\* ------------------------------------------------ pyodide-worker.js: run()
\* run() of the worker without a queue, from its call to its first
\* suspending await (pyodide-worker.js:36-44)
WRunSync(S, args) ==
  LET r == Len(S.runs) + 1 IN
  IF pyodide
  THEN [S EXCEPT !.runs = Append(@, NewRun(args, "patch")), !.jsModule = r]
  ELSE [S EXCEPT !.runs = Append(@, [NewRun(args, "done")
                                       EXCEPT !.completed = TRUE]),
                 !.evs = Append(@, Complete(r, FALSE, 0))]

\* self.onmessage (pyodide-worker.js:97-107) for the message m
WListener(m) ==
  CASE m.type = "init" -> initializePyodide
    [] m.type = "loadScript" -> loadScript
    [] m.type = "run" ->
         /\ Commit(WRunSync(Core, m))
         /\ received' = Append(received, m)
         /\ UNCHANGED <<pyodide, initPc, loadPc, moduleLoaded, py, orig>>
    [] OTHER ->
         /\ Commit(Core)
         /\ UNCHANGED <<pyodide, initPc, loadPc, moduleLoaded, py, orig,
                        received>>

\* delivery of the oldest message posted to the worker
WDeliver ==
  /\ toBridge # <<>>
  /\ WListener(Head(toBridge))
  /\ toBridge' = Tail(toBridge)
  /\ UNCHANGED ctlVars

\* resumption of the first await: the setup script has run
\* (pyodide-worker.js:44-60); output_handler was registered by this run or
\* is cached in sys.modules, so its import succeeds
WPatchDone(r) ==
  /\ r \in 1..Len(runs) /\ runs[r].pc = "patch"
  /\ orig' = [orig EXCEPT !.print = py.print]
  /\ py' = [py EXCEPT !.print = r]
  /\ Commit([Core EXCEPT !.runs[r].pc =
                            IF runs[r].hasArgs THEN "main" ELSE "catch"])
  /\ UNCHANGED <<pyodide, initPc, loadPc, moduleLoaded, toBridge, received,
                 ctlVars>>

\* what a print call does: builtins.print is the runtime's own ("silent"),
\* or a custom_print whose global _original_print is the runtime's own
\* ("posts"), or a custom_print whose _original_print is a custom_print, which
\* recurses until RecursionError ("raises")
PrintMode ==
  IF py.print = ORIGINAL THEN "silent"
  ELSE IF orig.print = ORIGINAL THEN "posts" ELSE "raises"

\* outcomes of the entry point; "escape" is a BaseException that no except
\* clause of the wrapper names
OutcomesW == Outcomes \cup [kind : {"escape"}, code : {0}]

\* the wrapper prints in these except clauses (pyodide-worker.js:67-77)
WrapperPrints(o) == o.kind \in {"eof", "interrupt", "exception"}

\* resumption of the second await: the synchronous entry point has run with
\* k print calls and outcome o, the wrapper has restored print, run() has
\* unregistered the module and posted complete (pyodide-worker.js:62-86),
\* or the call has rejected and run() is in its catch block (87-89)
WMainDone(r, k, o) ==
  /\ r \in 1..Len(runs) /\ runs[r].pc = "main"
  /\ LET raised == PrintMode = "raises" /\ (k > 0 \/ WrapperPrints(o))
         fault == ~moduleLoaded \/ raised \/ o.kind = "escape"
         n == IF PrintMode = "posts" /\ moduleLoaded
              THEN k + (IF WrapperPrints(o) THEN 1 ELSE 0) ELSE 0
         outs == [i \in 1..n |-> Ev("output", r)]
     IN IF fault
        THEN /\ Commit([Core EXCEPT !.runs[r].pc = "catch", !.evs = outs])
             /\ UNCHANGED <<py, orig>>
        ELSE /\ py' = [py EXCEPT !.print = orig.print]
             /\ UNCHANGED orig
             /\ IF jsModule = NULL
                THEN \* unregisterJsModule throws: nothing is registered
                     Commit([Core EXCEPT !.runs[r].pc = "catch",
                                         !.evs = outs])
                ELSE Commit([Core EXCEPT
                       !.runs[r].pc = "done",
                       !.runs[r].completed = TRUE,
                       !.jsModule = NULL,
                       !.outcome = o,
                       !.evs = outs \o <<Complete(r, TRUE, ExitCode(o))>>])
  /\ UNCHANGED <<pyodide, initPc, loadPc, moduleLoaded, toBridge, received,
                 ctlVars>>

\* resumption of the await in the catch block (pyodide-worker.js:87-93)
WCatchDone(r) ==
  /\ r \in 1..Len(runs) /\ runs[r].pc = "catch"
  /\ IF orig.print = UNDEFINED
     THEN \* NameError: the rest of the inner try is skipped
          /\ UNCHANGED py
          /\ Commit([Core EXCEPT !.runs[r].pc = "done",
                                 !.runs[r].completed = TRUE,
                                 !.evs = <<Complete(r, FALSE, 0)>>])
     ELSE /\ py' = [py EXCEPT !.print = orig.print]
          /\ Commit([Core EXCEPT !.runs[r].pc = "done",
                                 !.runs[r].completed = TRUE,
                                 !.jsModule = NULL,
                                 !.evs = <<Complete(r, FALSE, 0)>>])
  /\ UNCHANGED <<pyodide, initPc, loadPc, moduleLoaded, orig, toBridge,
                 received, ctlVars>>

WBridgeStep ==
  \/ \E ok \in BOOLEAN : InitStep(ok)
  \/ \E ok \in BOOLEAN : LoadScriptDone(ok)
  \/ \E r \in RunIds : WPatchDone(r)
  \/ \E r \in RunIds, k \in 0..MaxOut, o \in OutcomesW : WMainDone(r, k, o)
  \/ \E r \in RunIds : WCatchDone(r)

\* ----------------------------------------------------- Terminal Controller
KeyHelp == <<"h", "e", "l", "p">>
KeyClear == <<"c", "l", "e", "a", "r">>
KeyRun == <<"p", "y", "t", "h", "o", "n", " ", "j", "u", "s", "t", "_", "w",
            "a", "t", "c", "h", "_", "s", "e", "a", "r", "c", "h", ".", "p",
            "y">>

\* the registry, in declaration order (demo.js:1-14)
\* item is the line Tab prints for the key
TERMINAL_COMMANDS ==
  <<[key |-> KeyHelp, action |-> "runHelp", item |-> "- help"],
    [key |-> KeyClear, action |-> "clearTerminal", item |-> "- clear"],
    [key |-> KeyRun, action |-> "runJustWatchSearch",
     item |-> "- python just_watch_search.py"]>>

\* the lines the user types or pastes
UserLines == {<<"h">>, KeyHelp \o <<" ">> \o KeyHelp, KeyRun \o <<" ", "a">>}

WhiteSpace == {" ", "\t"}

\* String.prototype.trim
RECURSIVE trim(_)
trim(s) ==
  IF s = <<>> THEN s
  ELSE IF Head(s) \in WhiteSpace THEN trim(Tail(s))
  ELSE IF s[Len(s)] \in WhiteSpace THEN trim(SubSeq(s, 1, Len(s) - 1))
  ELSE s

equals(s, prefix) == s = prefix

\* String.prototype.startsWith
startsWith(s, prefix) == IsPrefix(prefix, s)

\* the for loop of runTerminalCommand (demo.js:120-126) from the i-th key
\* on: the index of the first key that command starts with, 0 for none
RECURSIVE MatchFrom(_, _)
MatchFrom(command, i) ==
  IF i > Len(TERMINAL_COMMANDS) THEN 0
  ELSE IF startsWith(command, TERMINAL_COMMANDS[i].key) THEN i
  ELSE MatchFrom(command, i + 1)

Match_SkipsFirst(command) == MatchFrom(command, 2)

Match(command) == MatchFrom(command, 1)

\* String.prototype.replace(pattern, '') with a string pattern: the first
\* occurrence of pattern, searched from position i on, is removed
RECURSIVE replaceFrom(_, _, _)
replaceFrom(s, pattern, i) ==
  IF i + Len(pattern) - 1 > Len(s) THEN s
  ELSE IF SubSeq(s, i, i + Len(pattern) - 1) = pattern
       THEN SubSeq(s, 1, i - 1) \o SubSeq(s, i + Len(pattern), Len(s))
       ELSE replaceFrom(s, pattern, i + 1)

\* args_raw = command.replace(key, '').trim() (demo.js:123)
ArgsRaw(command, key) == trim(replaceFrom(command, key, 1))

ArrowKey_StopsAtNewest(key, h, idx, value) ==
  IF Len(h) = 0 THEN [historyIndex |-> idx, value |-> value]
  ELSE LET i0 == IF idx < 0 \/ idx > Len(h) THEN Len(h) ELSE idx
           entry(i) == IF i < Len(h) THEN h[i + 1] ELSE <<>>
       IN IF key = "ArrowUp"
          THEN LET i1 == IF i0 > 0 THEN i0 - 1 ELSE i0
               IN [historyIndex |-> i1, value |-> entry(i1)]
          ELSE IF i0 < Len(h) - 1
               THEN [historyIndex |-> i0 + 1, value |-> entry(i0 + 1)]
               ELSE [historyIndex |-> i0, value |-> entry(i0)]

\* the ArrowUp/ArrowDown branch of the keydown handler (demo.js:205-225)
\* for history h, cursor idx and input line value
ArrowKey(key, h, idx, value) ==
  IF Len(h) = 0 THEN [historyIndex |-> idx, value |-> value]
  ELSE LET i0 == IF idx < 0 \/ idx > Len(h) THEN Len(h) ELSE idx
           entry(i) == IF i < Len(h) THEN h[i + 1] ELSE <<>>
       IN IF key = "ArrowUp"
          THEN LET i1 == IF i0 > 0 THEN i0 - 1 ELSE i0
               IN [historyIndex |-> i1, value |-> entry(i1)]
          ELSE IF i0 < Len(h) - 1
               THEN [historyIndex |-> i0 + 1, value |-> entry(i0 + 1)]
               ELSE [historyIndex |-> Len(h), value |-> <<>>]

matchingCommands_Exact(currentInput) ==
  SelectSeq(TERMINAL_COMMANDS, LAMBDA c : c.key = currentInput)

\* Object.keys(TERMINAL_COMMANDS).filter(cmd => cmd.startsWith(currentInput))
\* (demo.js:229)
matchingCommands(currentInput) ==
  SelectSeq(TERMINAL_COMMANDS, LAMBDA c : startsWith(c.key, currentInput))

\* the scanner of splitArgs (demo.js:136-170); inQuote is "" for null
RECURSIVE scan(_, _, _, _, _, _)
scan(s, i, args, cur, inQuote, esc) ==
  IF i > Len(s)
  THEN LET last == IF esc THEN Append(cur, "\\") ELSE cur
       IN IF last # <<>> THEN Append(args, last) ELSE args
  ELSE LET ch == s[i] IN
       IF esc THEN scan(s, i + 1, args, Append(cur, ch), inQuote, FALSE)
       ELSE IF ch = "\\" THEN scan(s, i + 1, args, cur, inQuote, TRUE)
       ELSE IF ch = "\"" \/ ch = "'"
            THEN IF inQuote = "" THEN scan(s, i + 1, args, cur, ch, FALSE)
                 ELSE IF inQuote = ch
                      THEN scan(s, i + 1, args, cur, "", FALSE)
                      ELSE scan(s, i + 1, args, Append(cur, ch), inQuote, FALSE)
       ELSE IF ch = " " /\ inQuote = ""
            THEN scan(s, i + 1, IF cur # <<>> THEN Append(args, cur) ELSE args,
                      <<>>, inQuote, FALSE)
       ELSE scan(s, i + 1, args, Append(cur, ch), inQuote, FALSE)

splitArgs_Unsplit(s) == IF s = <<>> THEN <<>> ELSE <<s>>

\* splitArgs (demo.js:130-171)
splitArgs(s) == scan(s, 1, <<>>, <<>>, "", FALSE)

\* a Controller step posts nothing from the worker and delivers nothing to it
CtlObs ==
  /\ lastPosted' = <<>>
  /\ lastResponse' = NoResponse
  /\ lastOutcome' = NoOutcome
  /\ UNCHANGED <<bridgeVars, received, answered>>

\* window load: initPyodide (demo.js:34-85, 240-242); ok is FALSE when the
\* Worker constructor throws
CtlLoad(ok) ==
  /\ status = "" /\ ctlPc = "idle"
  /\ IF ok
     THEN /\ worker' = TRUE
          /\ status' = "loading"
          /\ toBridge' = Append(toBridge, Msg("init", <<>>, FALSE, 0))
          /\ appended' = <<>>
     ELSE /\ status' = "error"
          /\ appended' = <<"Initialization error">>
          /\ UNCHANGED <<worker, toBridge>>
  /\ CtlObs
  /\ UNCHANGED <<toCtl, workerReady, fetchPc, inputDisabled, inputValue,
                 commandHistory, historyIndex, ctlPc, outstanding, nav>>

\* worker.onmessage (demo.js:40-71) for the oldest message from the worker
CtlOnMessage ==
  /\ toCtl # <<>> /\ ctlPc = "idle"
  /\ LET m == Head(toCtl) IN
     /\ toCtl' = Tail(toCtl)
     /\ status' = (CASE m.type = "status:loading" -> "loading"
                     [] m.type = "status:ready" -> "ready"
                     [] m.type = "complete" -> "ready"
                     [] OTHER -> status)
     /\ fetchPc' = (IF m.type = "initialized" THEN "fetching" ELSE fetchPc)
     /\ workerReady' = (workerReady \/ m.type = "scriptLoaded")
     /\ inputDisabled' = (inputDisabled /\ m.type # "complete")
     /\ outstanding' = (IF m.type = "complete" THEN outstanding - 1
                        ELSE outstanding)
     /\ appended' = (CASE m.type = "scriptLoaded" ->
                            <<"Python environment loaded", "Type help", "">>
                       [] m.type = "output" -> <<"output">>
                       [] m.type = "error" -> <<"Error">>
                       [] m.type = "complete" ->
                            (IF m.success THEN <<>> ELSE <<"Error">>) \o <<"">>
                       [] OTHER -> <<>>)
  /\ CtlObs
  /\ UNCHANGED <<toBridge, worker, inputValue, commandHistory, historyIndex,
                 ctlPc, nav>>

\* loadPythonScript() resumes (demo.js:23-32, 46-48)
CtlFetchDone(ok) ==
  /\ fetchPc = "fetching" /\ ctlPc = "idle"
  /\ IF ok
     THEN /\ fetchPc' = "done"
          /\ toBridge' = Append(toBridge, Msg("loadScript", <<>>, FALSE, 0))
          /\ appended' = <<>>
     ELSE /\ fetchPc' = "failed"
          /\ appended' = <<"Error loading Python script">>
          /\ UNCHANGED toBridge
  /\ CtlObs
  /\ UNCHANGED <<toCtl, worker, workerReady, status, inputDisabled, inputValue,
                 commandHistory, historyIndex, ctlPc, outstanding, nav>>

\* the user edits the input line; a disabled input takes no keys
UserType(line) ==
  /\ ~inputDisabled /\ ctlPc = "idle"
  /\ line # inputValue
  /\ inputValue' = line
  /\ appended' = <<>>
  /\ nav' = NavOff
  /\ CtlObs
  /\ UNCHANGED <<toBridge, toCtl, worker, workerReady, fetchPc, status,
                 inputDisabled, commandHistory, historyIndex, ctlPc,
                 outstanding>>

WorkerOnly == worker

\* the guard of runJustWatchSearch (demo.js:187)
Ready == worker /\ workerReady

\* Enter (demo.js:198-204) with a non-blank line: runTerminalCommand up to
\* its await of cmd.action (demo.js:117-178), action included
KeyEnter ==
  /\ ~inputDisabled /\ ctlPc = "idle"
  /\ trim(inputValue) # <<>>
  /\ LET command == trim(inputValue)
         k == Match(command)
     IN IF k = 0
        THEN /\ appended' = <<"Unknown command", "Type help">>
             /\ inputValue' = <<>>
             /\ UNCHANGED <<commandHistory, historyIndex, inputDisabled, ctlPc,
                            status, toBridge, outstanding>>
        ELSE LET cmd == TERMINAL_COMMANDS[k]
                 args == splitArgs(ArgsRaw(command, cmd.key))
                 post == cmd.action = "runJustWatchSearch" /\ Ready
             IN /\ Len(commandHistory) < MaxCmds
                /\ commandHistory' = Append(commandHistory, command)
                /\ historyIndex' = Len(commandHistory) + 1
                /\ inputValue' = <<>>
                /\ inputDisabled' = TRUE
                /\ ctlPc' = "awaitAction"
                /\ appended' =
                     (CASE cmd.action = "runHelp" ->
                             <<"$", "Available commands:">>
                             \o [i \in 1..Len(TERMINAL_COMMANDS) |-> "-"]
                             \o <<"">>
                        [] cmd.action = "clearTerminal" -> <<>>
                        [] cmd.action = "runJustWatchSearch" ->
                             IF Ready THEN <<"$">>
                             ELSE <<"$", "Python environment not ready yet">>)
                /\ status' = (IF post THEN "loading" ELSE status)
                /\ toBridge' = (IF post
                                THEN Append(toBridge, Msg("run", args, TRUE, 0))
                                ELSE toBridge)
                /\ outstanding' = (IF post THEN outstanding + 1 ELSE outstanding)
  /\ nav' = NavOff
  /\ CtlObs
  /\ UNCHANGED <<toCtl, worker, workerReady, fetchPc>>

\* the continuations of the awaits of cmd.action and of runTerminalCommand
\* (demo.js:179, 203), run as microtasks of the task of KeyEnter
CtlResume ==
  /\ ctlPc = "awaitAction"
  /\ inputDisabled' = FALSE
  /\ inputValue' = <<>>
  /\ ctlPc' = "idle"
  /\ nav' = NavOff
  /\ CtlObs
  /\ UNCHANGED <<toBridge, toCtl, worker, workerReady, fetchPc, status,
                 commandHistory, historyIndex, appended, outstanding>>

\* the input line is empty and the cursor is not on a history entry
Fresh ==
  /\ inputValue = <<>>
  /\ historyIndex = Len(commandHistory) \/ commandHistory = <<>>

\* ArrowUp or ArrowDown (demo.js:205-225)
KeyArrow(key) ==
  /\ ~inputDisabled /\ ctlPc = "idle"
  /\ LET st == ArrowKey(key, commandHistory, historyIndex, inputValue)
     IN /\ historyIndex' = st.historyIndex
        /\ inputValue' = st.value
  /\ appended' = <<>>
  /\ nav' = (IF key = "ArrowUp"
             THEN IF nav.ups >= 1 /\ nav.downs = 0 /\ nav.ups < MaxNav
                  THEN [nav EXCEPT !.ups = @ + 1]
                  ELSE IF Fresh THEN [ups |-> 1, downs |-> 0] ELSE NavOff
             ELSE IF nav.ups >= 1 /\ nav.downs < nav.ups
                  THEN [nav EXCEPT !.downs = @ + 1]
                  ELSE NavOff)
  /\ CtlObs
  /\ UNCHANGED <<toBridge, toCtl, worker, workerReady, fetchPc, status,
                 inputDisabled, commandHistory, ctlPc, outstanding>>

\* Tab (demo.js:226-237)
KeyTab ==
  /\ ~inputDisabled /\ ctlPc = "idle"
  /\ LET currentInput == trim(inputValue)
         m == matchingCommands(currentInput)
     IN IF Len(m) = 1
        THEN /\ inputValue' = m[1].key
             /\ appended' = <<>>
        ELSE IF Len(m) > 1
        THEN /\ appended' = <<"Possible completions:">>
                             \o [i \in 1..Len(m) |-> m[i].item]
             /\ UNCHANGED inputValue
        ELSE /\ appended' = <<>>
             /\ UNCHANGED inputValue
  /\ nav' = NavOff
  /\ CtlObs
  /\ UNCHANGED <<toBridge, toCtl, worker, workerReady, fetchPc, status,
                 inputDisabled, commandHistory, historyIndex, ctlPc,
                 outstanding>>

CtlStep ==
  \/ \E ok \in BOOLEAN : CtlLoad(ok)
  \/ CtlOnMessage
  \/ \E ok \in BOOLEAN : CtlFetchDone(ok)
  \/ \E line \in UserLines : UserType(line)
  \/ KeyEnter
  \/ CtlResume

Init == InitBridge /\ InitCtl

Next == CtlStep \/ WDeliver \/ WBridgeStep

\* the Controller with the worker it instantiates, pyodide-worker.js
Spec == Init /\ [][Next]_vars

\* the keys of the command line
KeyStep ==
  \/ \E line \in UserLines : UserType(line)
  \/ KeyEnter
  \/ CtlResume
  \/ \E key \in {"ArrowUp", "ArrowDown"} : KeyArrow(key)
  \/ KeyTab

NextT == KeyStep \/ \E ok \in BOOLEAN : CtlLoad(ok)

\* the command line of the Controller, from page load on, while no message
\* of the worker has been delivered
SpecT == Init /\ [][NextT]_vars

\* ---------------------------------------------------------- the tokenizer
\* the characters of the raw argument strings: a letter, space, tab,
\* backslash, single quote, double quote
Alphabet == {"a", " ", "\t", "\\", "'", "\""}

\* the strings over Alphabet of length n
RECURSIVE StringsOfLen(_)
StringsOfLen(n) ==
  IF n = 0 THEN {<<>>}
  ELSE {Append(s, c) : s \in StringsOfLen(n - 1), c \in Alphabet}

\* the example inputs of the tokenizer: a "b c" d, a\ b, it's "a" test
Example1 == <<"a", " ", "\"", "b", " ", "c", "\"", " ", "d">>
Example2 == <<"a", "\\", " ", "b">>
Example3 == <<"i", "t", "'", "s", " ", "\"", "a", "\"", " ", "t", "e", "s", "t">>

RawArgs ==
  {Example1, Example2, Example3}
  \cup UNION {StringsOfLen(n) : n \in 1..MaxLen}

\* the execution command followed by a raw argument string
RunLine(raw) == KeyRun \o <<" ">> \o raw

\* the page after the bootstrap and the load of the script, the worker
\* idle, and a line with the execution command in the command input
InitTok ==
  /\ pyodide = TRUE
  /\ initPc = "done"
  /\ loadPc = "loaded"
  /\ moduleLoaded = TRUE
  /\ jsModule = NULL
  /\ py = AllOf(ORIGINAL)
  /\ orig = AllOf(UNDEFINED)
  /\ runs = <<>>
  /\ activeStdinHandler = NULL
  /\ runningCommand = FALSE
  /\ commandQueue = <<>>
  /\ toBridge = <<>>
  /\ toCtl = <<>>
  /\ lastPosted = <<>>
  /\ received = <<>>
  /\ lastResponse = NoResponse
  /\ answered = NULL
  /\ lastOutcome = NoOutcome
  /\ worker = TRUE
  /\ workerReady = TRUE
  /\ fetchPc = "done"
  /\ status = "ready"
  /\ inputDisabled = FALSE
  /\ inputValue \in {RunLine(raw) : raw \in RawArgs}
  /\ commandHistory = <<>>
  /\ historyIndex = 0 - 1
  /\ ctlPc = "idle"
  /\ appended = <<>>
  /\ outstanding = 0
  /\ nav = NavOff

NextTok == KeyEnter \/ CtlResume

\* the execution command submitted with each raw argument string
SpecTok == InitTok /\ [][NextTok]_vars

\* delivery of the oldest message posted to the queueing worker
QDeliver ==
  /\ toBridge # <<>>
  /\ QListener(Head(toBridge))
  /\ toBridge' = Tail(toBridge)
  /\ UNCHANGED ctlVars

NextCQ == CtlStep \/ QDeliver \/ QBridgeStep

\* the Controller with the queueing worker of part_000
SpecCQ == Init /\ [][NextCQ]_vars

\* fairness: tasks that are ready are run
FairSpecCQ ==
  /\ SpecCQ
  /\ WF_vars(CtlOnMessage \/ CtlResume \/ \E ok \in BOOLEAN : CtlFetchDone(ok))
  /\ WF_vars(QDeliver)
  /\ WF_vars(QBridgeStep)

\* fairness of the queueing Bridge: an awaited runtime call resumes, the
\* script's entry point ends, an open stdin_request is answered
RunProgress ==
  \E r \in RunIds :
    \/ QPatchDone(r)
    \/ QCatchDone(r)
    \/ QExecFault(r)
    \/ \E o \in Outcomes : QScriptEnd(r, o)
    \/ EnvAnswer(r)

FairQ == WF_vars(RunProgress)

FairSpecQ == SpecQ /\ FairQ

\* ------------------------------------------------------------------ claims
IsComplete(e, r) == e.type = "complete" /\ e.run = r
IsRunEvent(e) == e.type \in {"output", "stdin_request"}

\* C1: in the queueing Bridge at most one invocation of run() is in
\* progress at any instant, and runningCommand is true for as long as a run
\* is in progress.
C1_AtMostOneRun ==
  /\ Cardinality(Active) <= 1
  /\ Active # {} => runningCommand

\* a run message has arrived while the running script waits for input
C1_Witness ==
  \E r \in Active : runs[r].pc = "input" /\ commandQueue # <<>>

\* C2: every output or stdin_request of run N is posted before the complete
\* of run N and after the complete of every earlier run.
C2_CompleteBeforeNext ==
  \A i \in 1..Len(lastPosted) :
    LET e == lastPosted[i] IN
    IsRunEvent(e) =>
      /\ \A j \in 1..(i - 1) : ~IsComplete(lastPosted[j], e.run)
      /\ runs[e.run].completed =>
            \E j \in (i + 1)..Len(lastPosted) : IsComplete(lastPosted[j], e.run)
      /\ \A q \in 1..(e.run - 1) :
            /\ runs[q].completed
            /\ \A j \in i..Len(lastPosted) : ~IsComplete(lastPosted[j], q)

\* run 1 ends: its wrapper output, then its complete, and only then run 2,
\* which was queued behind it, starts
C2_Witness ==
  /\ Len(lastPosted) >= 2
  /\ lastPosted[1] = Ev("output", 1)
  /\ IsComplete(lastPosted[Len(lastPosted)], 1)
  /\ Len(runs) = 2 /\ runs[2].pc = "patch"

\* C3: the worker the Controller instantiates (pyodide-worker.js) starts a
\* run() only when every run started before it has posted its complete.
C3_RunsToCompletion ==
  \A r \in 1..Len(runs) : \A q \in 1..(r - 1) : runs[q].completed

\* C4: the runs started so far, followed by the queued requests, are the
\* run messages received, in the order of arrival and with their own args.
StartedMsgs == [i \in 1..Len(runs) |-> Msg("run", runs[i].args, runs[i].hasArgs, 0)]

C4_ArrivalOrder == StartedMsgs \o commandQueue = received

\* three runs have started, the second and third from different messages
C4_Witness ==
  /\ Len(runs) = 3
  /\ received[2] # received[3]
  /\ runs[3].hasArgs /\ runs[3].pc = "main"

\* C5: every run message delivered is eventually answered by a complete,
\* with no further message needed, also after a run that faulted.
C5_EveryRunCompletes ==
  \A n \in RunIds :
    (Len(received) >= n) ~> (Len(runs) >= n /\ runs[n].completed)

\* a run ends with a fault and the drain starts the request queued behind it
C5_Witness ==
  \E r \in 1..Len(runs) :
    /\ lastPosted = <<Complete(r, FALSE, 0)>>
    /\ Len(runs) > r /\ runs[r + 1].pc = "patch"
    /\ runningCommand

\* C6: when a run posts complete, print, input, stdout and stderr are the
\* runtime's own, and neither the output_handler module nor the stdin
\* handler of that run or of an earlier run is installed.
C6_RestoredAtComplete ==
  \A i \in 1..Len(lastPosted) :
    lastPosted[i].type = "complete" =>
      /\ py = AllOf(ORIGINAL)
      /\ jsModule \notin 1..lastPosted[i].run
      /\ activeStdinHandler \notin 1..lastPosted[i].run

\* C7: while a run message is unanswered the command input is disabled,
\* and no second run message is posted.
C7_InputDisabledWhileRunning ==
  /\ outstanding > 0 => inputDisabled
  /\ outstanding <= 1

\* C8: a run message is posted only when workerReady is true; dispatching
\* the execution command earlier posts nothing and prints the not-ready line.
RunPosted ==
  \/ received # <<>>
  \/ \E i \in 1..Len(toBridge) : toBridge[i].type = "run"

DispatchesRun ==
  /\ Len(commandHistory') = Len(commandHistory) + 1
  /\ IsPrefix(KeyRun, commandHistory'[Len(commandHistory')])

C8_RunOnlyWhenReady ==
  /\ [](RunPosted => worker /\ workerReady)
  /\ [][DispatchesRun /\ ~(worker /\ workerReady) =>
          /\ toBridge' = toBridge
          /\ appended' = <<"$", "Python environment not ready yet">>]_vars

\* the execution command is dispatched while the worker bootstraps
C8_Witness ==
  /\ worker /\ ~workerReady /\ initPc = "loadPackage"
  /\ appended = <<"$", "Python environment not ready yet">>
  /\ ~RunPosted

\* C9: a stdin_response resolves the input request of a run only when it
\* was sent for that run's stdin_request.
C9_OnlyOwnResponse ==
  lastResponse.resolved # NULL => lastResponse.to = lastResponse.resolved

\* C10: a run that has posted a stdin_request is eventually answered by the
\* Controller, resumes and posts its complete.
C10_InputRoundTrip ==
  \A r \in RunIds :
    (r \in Waiting) ~> (r <= Len(runs) /\ runs[r].completed)

\* C11: when a step of the bootstrap fails, the Bridge posts status with
\* state error, and from then on the Controller is never ready and no run
\* message is posted.
C11_BootstrapFailureReported ==
  /\ [][initPc # "failed" /\ initPc' = "failed" =>
          \E i \in 1..Len(lastPosted') :
            lastPosted'[i].type = "status:error"]_vars
  /\ [](initPc = "failed" => ~workerReady /\ ~RunPosted)

\* C12: the exit code of complete follows from how the entry point ended:
\* return gives 0, SystemExit gives its code (0 when it has none), EOFError
\* gives 1, KeyboardInterrupt gives 130, any other exception gives 1.
C12_Expected(o) ==
  IF o.kind = "return" THEN 0
  ELSE IF o.kind = "exit" THEN (IF o.code = UNDEFINED THEN 0 ELSE o.code)
  ELSE IF o.kind = "eof" THEN 1
  ELSE IF o.kind = "interrupt" THEN 130
  ELSE 1

C13_Known(line) ==
  \E i \in 1..Len(TERMINAL_COMMANDS) : IsPrefix(TERMINAL_COMMANDS[i].key, line)

C13_HistoryRecordsMatches ==
  [][LET line == trim(inputValue) IN
     /\ (KeyEnter /\ C13_Known(line)) =>
           commandHistory' = Append(commandHistory, line)
     /\ (KeyEnter /\ ~C13_Known(line)) =>
           UNCHANGED <<commandHistory, historyIndex>>
     /\ ~KeyEnter => UNCHANGED commandHistory]_vars

\* an unknown command is submitted after one command has been recorded and
\* the cursor has been moved to it
C13_Witness ==
  /\ appended = <<"Unknown command", "Type help">>
  /\ Len(commandHistory) = 1
  /\ historyIndex = 0

\* C14: in every state, the initial one included, historyIndex lies in
\* 0..commandHistory.length.
C14_CursorInRange == historyIndex \in 0..Len(commandHistory)

\* C15: starting with an empty input line and a fresh cursor, k presses of
\* Up followed by k presses of Down leave the line empty and the cursor
\* fresh; during the Ups the cursor is never below 0 and as many Ups as there
\* are entries, or more, leave it on the oldest entry; with an empty history
\* Up and Down change neither the line nor the cursor.
C15_UpDownRoundTrip ==
  /\ [](nav.ups >= 1 /\ commandHistory # <<>> =>
          /\ historyIndex >= 0
          /\ (nav.downs = 0 /\ nav.ups >= Len(commandHistory)) =>
                historyIndex = 0 /\ inputValue = commandHistory[1]
          /\ (nav.downs = 0 /\ nav.ups < Len(commandHistory)) =>
                /\ historyIndex = Len(commandHistory) - nav.ups
                /\ inputValue = commandHistory[historyIndex + 1]
          /\ nav.downs = nav.ups =>
                inputValue = <<>> /\ historyIndex = Len(commandHistory))
  /\ [][\A key \in {"ArrowUp", "ArrowDown"} :
          KeyArrow(key) /\ commandHistory = <<>> =>
            UNCHANGED <<inputValue, historyIndex>>]_vars

\* three Ups, one more than there are entries, and three Downs
C15_Witness ==
  /\ nav = [ups |-> 3, downs |-> 3]
  /\ Len(commandHistory) = 2
  /\ Fresh

\* C16: Tab with exactly one registry key that starts with the (trimmed)
\* input text makes that key the input line; with two or more such keys it
\* prints each of them and leaves the line; with none it prints nothing and
\* leaves the line. Tab never changes commandHistory or historyIndex and
\* posts nothing to the worker.
C16_Candidates(text) ==
  SelectSeq(TERMINAL_COMMANDS, LAMBDA c : IsPrefix(text, c.key))

C17_Hits(line) ==
  {i \in 1..Len(TERMINAL_COMMANDS) : IsPrefix(TERMINAL_COMMANDS[i].key, line)}

C17_Rest(line, i) ==
  trim(SubSeq(line, Len(TERMINAL_COMMANDS[i].key) + 1, Len(line)))

C17_Dispatch ==
  [][KeyEnter =>
       LET line == trim(inputValue)
           hits == C17_Hits(line)
       IN /\ hits = {} <=> appended' = <<"Unknown command", "Type help">>
          /\ hits # {} =>
               LET k == CHOOSE i \in hits : \A j \in hits : i <= j
                   action == TERMINAL_COMMANDS[k].action
               IN /\ action = "runHelp" =>
                       Len(appended') > 1 /\ appended'[2] = "Available commands:"
                  /\ action = "clearTerminal" => appended' = <<>>
                  /\ action = "runJustWatchSearch" =>
                       IF worker /\ workerReady
                       THEN toBridge' = Append(toBridge,
                              Msg("run", splitArgs(C17_Rest(line, k)), TRUE, 0))
                       ELSE appended' = <<"$", "Python environment not ready yet">>
                  /\ action # "runJustWatchSearch" => toBridge' = toBridge]_vars

\* the execution command has been dispatched with its argument
C17_Witness ==
  /\ ctlPc = "awaitAction"
  /\ toBridge # <<>>
  /\ Last(toBridge) = Msg("run", <<TokA>>, TRUE, 0)
  /\ Last(commandHistory) = KeyRun \o <<" ", "a">>

\* the run message posted for the line that was submitted first carries the
\* tokens toks, when that line is the execution command followed by raw
C18_Posts(raw, toks) ==
  (toBridge # <<>> /\ commandHistory # <<>>
     /\ commandHistory[1] = trim(RunLine(raw))) =>
    toBridge[1] = Msg("run", toks, TRUE, 0)

\* C18 as stated: a "b c" d gives [a, b c, d]; a\ b gives [a b];
\* it's "a" test gives [its, a, test].
C18_ListedResults ==
  /\ C18_Posts(Example1, << <<"a">>, <<"b", " ", "c">>, <<"d">> >>)
  /\ C18_Posts(Example2, << <<"a", " ", "b">> >>)
  /\ C18_Posts(Example3, << <<"i", "t", "s">>, <<"a">>,
                            <<"t", "e", "s", "t">> >>)

\* C18, amended: a "b c" d gives [a, b c, d]; a\ b gives [a b];
\* it's "a" test gives the single token its "a" test, because the single
\* quote is never closed and the double quotes inside it are literal.
C18_Results ==
  /\ C18_Posts(Example1, << <<"a">>, <<"b", " ", "c">>, <<"d">> >>)
  /\ C18_Posts(Example2, << <<"a", " ", "b">> >>)
  /\ C18_Posts(Example3, << <<"i", "t", "s", " ", "\"", "a", "\"", " ",
                              "t", "e", "s", "t">> >>)

\* the third example has been submitted and its run message posted
C18_Witness ==
  /\ commandHistory = <<RunLine(Example3)>>
  /\ Len(toBridge) = 1
  /\ toBridge[1].type = "run"
  /\ Len(toBridge[1].args) = 1

\* C19: the tokens of a raw argument string are those the stated rules give:
\* unquoted white space (space or tab) splits, a backslash makes the next
\* character literal, a quote opens a stretch that ends at the next quote of
\* the same kind or at the end of the input, a trailing backslash is kept,
\* and no token is empty.
RECURSIVE C19_Scan(_, _, _, _, _)
C19_Scan(s, args, cur, quote, esc) ==
  LET emit == IF cur # <<>> THEN Append(args, cur) ELSE args IN
  IF s = <<>>
  THEN IF esc THEN Append(args, Append(cur, "\\")) ELSE emit
  ELSE LET ch == Head(s)
           rest == Tail(s)
       IN IF esc THEN C19_Scan(rest, args, Append(cur, ch), quote, FALSE)
          ELSE IF ch = "\\" THEN C19_Scan(rest, args, cur, quote, TRUE)
          ELSE IF quote # "" /\ ch = quote
               THEN C19_Scan(rest, args, cur, "", FALSE)
          ELSE IF quote # ""
               THEN C19_Scan(rest, args, Append(cur, ch), quote, FALSE)
          ELSE IF ch \in {"'", "\""}
               THEN C19_Scan(rest, args, cur, ch, FALSE)
          ELSE IF ch \in WhiteSpace
               THEN C19_Scan(rest, emit, <<>>, quote, FALSE)
          ELSE C19_Scan(rest, args, Append(cur, ch), quote, FALSE)

C19_TokenizerRules ==
  (toBridge # <<>> /\ commandHistory # <<>>) =>
    LET raw == trim(SubSeq(commandHistory[1], Len(KeyRun) + 1,
                           Len(commandHistory[1])))
    IN toBridge[1].args = C19_Scan(raw, <<>>, <<>>, "", FALSE)

\* C20: a run() that has returned has posted its complete; a complete is
\* posted for a run that had none yet, once, by the step in which the run
\* returns, and no output or stdin_request of that run follows it; so there
\* are never more completes than run messages received.
C20_ExactlyOneComplete ==
  /\ [](\A r \in 1..Len(runs) :
          runs[r].pc \in {"returned", "done"} <=> runs[r].completed)
  /\ [][\A i \in 1..Len(lastPosted') :
          LET e == lastPosted'[i] IN
          /\ e.type = "complete" =>
               /\ e.run \in 1..Len(runs') /\ runs'[e.run].pc = "done"
               /\ e.run <= Len(runs) => ~runs[e.run].completed
               /\ \A j \in 1..Len(lastPosted') :
                    j # i => ~IsComplete(lastPosted'[j], e.run)
          /\ IsRunEvent(e) =>
               /\ e.run <= Len(runs) /\ ~runs[e.run].completed
               /\ \A j \in 1..(i - 1) : ~IsComplete(lastPosted'[j], e.run)]_vars
  /\ [](Cardinality({r \in 1..Len(runs) : runs[r].completed})
          <= Len(received))

\* a run requested before the runtime exists: registering the module throws,
\* the restore step of the catch block throws too, and complete is posted
C20_Witness ==
  /\ ~pyodide
  /\ Len(runs) = 2
  /\ runs[2].pc = "done"
  /\ lastPosted = <<Complete(2, FALSE, 0)>>

====
